---- MODULE Spec2Model ----
(***************************************************************************)
(* Model of gri-core: the graph document (src/src/graph.rs), the mode      *)
(* machine (src/src/editor/mode.rs) and the editor session with its undo   *)
(* tree (src/src/editor/state.rs).                                         *)
(*                                                                         *)
(* Strings are sequences of one-character strings.  A HashMap is a         *)
(* function whose DOMAIN is the key set.  Option<T> is a record            *)
(* [some |-> BOOLEAN, val |-> T].  A panic is recorded by its message;     *)
(* nothing runs after it.                                                  *)
(***************************************************************************)
EXTENDS Integers, Sequences, FiniteSets, TLC

\* ------------------------------------------------------------------ bounds
\* longest edge specification typed in InsertEdgePending
MaxBuf == 3
\* most nodes the history arena may hold (standard edits per session)
MaxNodes == 4
\* graph-level runs: vertex ids 0..MaxVertexId, edge ids 0..MaxEdgeId
MaxVertexId == 1
MaxEdgeId == 1
\* graph-level undo run: most effective operations recorded
MaxOps == 3
\* most operations given to apply_all in one call
MaxBatch == 2

VARIABLES
    \* EditorState (state.rs:14-31)
    mode, document, history_tree, last_edit, next_vertex_id, next_edge_id,
    \* the panic that aborted the session, NoPanic while it runs
    panicked,
    \* the last input given to evaluate and the transition_result it computed
    input, transition_result,
    \* the last standard edit, while only Undo and then Redo have followed it:
    \* how far that went, and the document before and after the edit
    round_trip,
    \* how many CreateNewVertex and successful CreateNewEdge intents were evaluated
    edits_evaluated,
    \* the edge specification being typed or just cancelled: how many characters
    \* were typed, and the session's data when e was pressed
    edge_input,
    \* graph-level runs (graph.rs tests): the graph, the last operation applied
    \* to it and the Diff it returned, the recorded history, the position
    g, gop, diff, failed, history, pc, idx,
    \* the operations last given to apply_all
    batch

editorVars == <<mode, document, history_tree, last_edit, next_vertex_id,
                next_edge_id, panicked, input, transition_result, round_trip,
                edits_evaluated, edge_input>>
graphVars == <<g, gop, diff, failed, history, pc, idx, batch>>
vars == <<mode, document, history_tree, last_edit, next_vertex_id,
          next_edge_id, panicked, input, transition_result, round_trip,
          edits_evaluated, edge_input,
          g, gop, diff, failed, history, pc, idx, batch>>

\* ------------------------------------------------------------ graph.rs
Vertex(id) == [id |-> id]

\* an Edge built with its endpoints exchanged
Edge_endpoints_exchanged(id, source, target) == [id |-> id, source |-> target, target |-> source]

Edge(id, source, target) == [id |-> id, source |-> source, target |-> target]

AddVertex(v) == [op |-> "AddVertex", v |-> v]

RemoveVertex(v) == [op |-> "RemoveVertex", v |-> v]

AddEdge(e) == [op |-> "AddEdge", e |-> e]

RemoveEdge(e) == [op |-> "RemoveEdge", e |-> e]

EmptyMap == [k \in {} |-> k]

\* HashMap::insert: the value is stored under the key, replacing an old one
MapInsert(m, k, val) == [x \in (DOMAIN m) \cup {k} |-> IF x = k THEN val ELSE m[x]]

\* HashMap::remove
MapRemove(m, k) == [x \in (DOMAIN m) \ {k} |-> m[x]]

\* Graph::new
NewGraph == [vertices |-> EmptyMap, edges |-> EmptyMap]

\* invert with the edge arms left as they are
invert_edges_unflipped(o) ==
    CASE o.op = "AddVertex" -> RemoveVertex(o.v)
      [] o.op = "RemoveVertex" -> AddVertex(o.v)
      [] o.op = "AddEdge" -> AddEdge(o.e)
      [] o.op = "RemoveEdge" -> RemoveEdge(o.e)

\* GraphOperation::invert
invert(o) ==
    CASE o.op = "AddVertex" -> RemoveVertex(o.v)
      [] o.op = "RemoveVertex" -> AddVertex(o.v)
      [] o.op = "AddEdge" -> RemoveEdge(o.e)
      [] o.op = "RemoveEdge" -> AddEdge(o.e)

\* the result of a call on a graph: the graph after it, the Diff returned,
\* and whether the call panicked instead of returning
Ret(gr, ops) == [g |-> gr, diff |-> ops, panic |-> FALSE]

Panic(gr) == [g |-> gr, diff |-> <<>>, panic |-> TRUE]

\* add_vertex that reports the vertex only when it was already present
add_vertex_reports_present(gr, v) ==
    LET result_is_none == v.id \notin DOMAIN gr.vertices
        gr2 == [gr EXCEPT !.vertices = MapInsert(gr.vertices, v.id, v)]
    IN  Ret(gr2, IF result_is_none THEN <<>> ELSE <<AddVertex(v)>>)

\* Graph::add_vertex
add_vertex(gr, v) ==
    LET result_is_none == v.id \notin DOMAIN gr.vertices
        gr2 == [gr EXCEPT !.vertices = MapInsert(gr.vertices, v.id, v)]
    IN  Ret(gr2, IF result_is_none THEN <<AddVertex(v)>> ELSE <<>>)

\* the orders in which a HashSet holding the edges with ids in S may be iterated
Orders(S) == {o \in [1..Cardinality(S) -> S] : \A i, j \in 1..Cardinality(S) : i # j => o[i] # o[j]}

\* remove_vertex without the removal of the incident edges
remove_vertex_keeps_edges(gr, v, ord) ==
    IF v.id \in DOMAIN gr.vertices
    THEN Ret([gr EXCEPT !.vertices = MapRemove(gr.vertices, v.id)], <<RemoveVertex(v)>>)
    ELSE Ret(gr, <<>>)

\* remove_vertex that looks at the source of an edge only
remove_vertex_source_only(gr, v, ord) ==
    IF v.id \in DOMAIN gr.vertices
    THEN LET incident(id) == id \in DOMAIN gr.edges /\ gr.edges[id].source = v.id
             edges_to_remove == SelectSeq(ord, incident)
             removed == {edges_to_remove[i] : i \in 1..Len(edges_to_remove)}
             gr2 == [vertices |-> MapRemove(gr.vertices, v.id),
                     edges |-> [x \in (DOMAIN gr.edges) \ removed |-> gr.edges[x]]]
         IN  Ret(gr2, <<RemoveVertex(v)>> \o
                      [i \in 1..Len(edges_to_remove) |-> RemoveEdge(gr.edges[edges_to_remove[i]])])
    ELSE Ret(gr, <<>>)

\* Graph::remove_vertex; ord is the iteration order of edges_to_remove
remove_vertex(gr, v, ord) ==
    IF v.id \in DOMAIN gr.vertices
    THEN LET incident(id) == /\ id \in DOMAIN gr.edges
                             /\ (gr.edges[id].source = v.id \/ gr.edges[id].target = v.id)
             edges_to_remove == SelectSeq(ord, incident)
             removed == {edges_to_remove[i] : i \in 1..Len(edges_to_remove)}
             gr2 == [vertices |-> MapRemove(gr.vertices, v.id),
                     edges |-> [x \in (DOMAIN gr.edges) \ removed |-> gr.edges[x]]]
         IN  Ret(gr2, <<RemoveVertex(v)>> \o
                      [i \in 1..Len(edges_to_remove) |-> RemoveEdge(gr.edges[edges_to_remove[i]])])
    ELSE Ret(gr, <<>>)

\* Graph::add_edge
add_edge(gr, e) ==
    IF e.source \notin DOMAIN gr.vertices THEN Panic(gr)
    ELSE IF e.target \notin DOMAIN gr.vertices THEN Panic(gr)
    ELSE LET result_is_none == e.id \notin DOMAIN gr.edges
             gr2 == [gr EXCEPT !.edges = MapInsert(gr.edges, e.id, e)]
         IN  Ret(gr2, IF result_is_none THEN <<AddEdge(e)>> ELSE <<>>)

\* remove_edge that reports the removal and keeps the edge
remove_edge_keeps_edge(gr, e) ==
    IF e.id \in DOMAIN gr.edges
    THEN Ret(gr, <<RemoveEdge(e)>>)
    ELSE Ret(gr, <<>>)

\* Graph::remove_edge
remove_edge(gr, e) ==
    IF e.id \in DOMAIN gr.edges
    THEN Ret([gr EXCEPT !.edges = MapRemove(gr.edges, e.id)], <<RemoveEdge(e)>>)
    ELSE Ret(gr, <<>>)

\* Graph::apply
apply(gr, operation, ord) ==
    CASE operation.op = "AddVertex" -> add_vertex(gr, operation.v)
      [] operation.op = "RemoveVertex" -> remove_vertex(gr, operation.v, ord)
      [] operation.op = "AddEdge" -> add_edge(gr, operation.e)
      [] operation.op = "RemoveEdge" -> remove_edge(gr, operation.e)

\* Graph::apply_all: the operations in order, the effective diffs concatenated;
\* a panic leaves the graph as the earlier operations made it
RECURSIVE apply_all_from(_, _, _, _, _)
apply_all_from(gr, operations, i, acc, ord) ==
    IF i > Len(operations) THEN Ret(gr, acc)
    ELSE LET r == apply(gr, operations[i], ord)
         IN  IF r.panic THEN Panic(r.g)
             ELSE apply_all_from(r.g, operations, i + 1, acc \o r.diff, ord)

apply_all(gr, operations, ord) == apply_all_from(gr, operations, 1, <<>>, ord)

\* the ids of the edges a graph holds or a list of operations names
EdgeIdsOf(gr, operations) ==
    (DOMAIN gr.edges) \cup
    {operations[i].e.id : i \in {j \in 1..Len(operations) : operations[j].op \in {"AddEdge", "RemoveEdge"}}}

\* Graph::resolve_vertex and the string helpers come with the editor below.

\* --------------------------------------------------- graph-level runs
VertexIds == 0..MaxVertexId
EdgeIds == 0..MaxEdgeId

AllVertices == {Vertex(i) : i \in VertexIds}
AllEdges == {Edge(i, s, t) : i \in EdgeIds, s \in VertexIds, t \in VertexIds}

GraphOps == {AddVertex(v) : v \in AllVertices} \cup {RemoveVertex(v) : v \in AllVertices}
            \cup {AddEdge(e) : e \in AllEdges} \cup {RemoveEdge(e) : e \in AllEdges}

NoOp == [op |-> "None"]

\* ------------------------------------------------------- string helpers
Digits == <<"0", "1", "2", "3", "4", "5", "6", "7", "8", "9">>

IsDigit(c) == \E d \in 1..10 : Digits[d] = c

DigitVal(c) == (CHOOSE d \in 1..10 : Digits[d] = c) - 1

IsSpace(c) == c = " "

None == [some |-> FALSE, val |-> 0]

Some(x) == [some |-> TRUE, val |-> x]

\* str::trim: leading and trailing whitespace removed
RECURSIVE trim_start(_)
trim_start(s) == IF s # <<>> /\ IsSpace(Head(s)) THEN trim_start(Tail(s)) ELSE s

RECURSIVE trim_end(_)
trim_end(s) == IF s # <<>> /\ IsSpace(s[Len(s)]) THEN trim_end(SubSeq(s, 1, Len(s) - 1)) ELSE s

trim(s) == trim_end(trim_start(s))

\* the digits of s read as a decimal number, most significant first
RECURSIVE digits_value(_, _)
digits_value(s, acc) ==
    IF s = <<>> THEN acc ELSE digits_value(Tail(s), acc * 10 + DigitVal(Head(s)))

\* str::parse::<i64>: an optional sign, then one or more digits (a buffer of
\* at most MaxBuf characters is far below the 19 digits where i64 overflows)
parse_i64(s) ==
    LET signed == s # <<>> /\ Head(s) \in {"+", "-"}
        body == IF signed THEN Tail(s) ELSE s
    IN  IF body = <<>> \/ \E i \in 1..Len(body) : ~IsDigit(body[i]) THEN None
        ELSE IF signed /\ Head(s) = "-" THEN Some(0 - digits_value(body, 0))
        ELSE Some(digits_value(body, 0))

\* str::rsplit_once(','): the text before and after the last comma
rsplit_once(s) ==
    LET commas == {i \in 1..Len(s) : s[i] = ","}
    IN  IF commas = {} THEN [some |-> FALSE, val |-> <<>>]
        ELSE LET k == CHOOSE i \in commas : \A j \in commas : j <= i
             IN  Some(<<SubSeq(s, 1, k - 1), SubSeq(s, k + 1, Len(s))>>)

\* Graph::resolve_vertex
resolve_vertex(gr, vertex) ==
    LET parsed == parse_i64(trim(vertex))
    IN  IF parsed.some /\ parsed.val \in DOMAIN gr.vertices THEN parsed ELSE None

\* ------------------------------------------------------------ mode.rs
ESC == "ESC"
ENTER == "ENTER"

Command == [tag |-> "Command", buf |-> <<>>]

Insert == [tag |-> "Insert", buf |-> <<>>]

InsertEdgePending(s) == [tag |-> "InsertEdgePending", buf |-> s]

CreateNewVertex == [tag |-> "CreateNewVertex", arg |-> <<>>]

CreateNewEdge(s) == [tag |-> "CreateNewEdge", arg |-> s]

\* state.rs matches on these two intents; mode.rs never emits them
Undo == [tag |-> "Undo", arg |-> <<>>]

Redo == [tag |-> "Redo", arg |-> <<>>]

NoIntent == [tag |-> "None", arg |-> <<>>]

ModeChange(next_mode) == [kind |-> "ModeChange", op |-> NoIntent, mode |-> next_mode]

Apply(op, next_mode) == [kind |-> "Apply", op |-> op, mode |-> next_mode]

Error(next_mode) == [kind |-> "Error", op |-> NoIntent, mode |-> next_mode]

\* unknown_command that reports the error and falls back to Command mode
unknown_command_to_command(self, key) == Error(Command)

\* EditorMode::unknown_command
unknown_command(self, key) == Error(self)

\* transition where ESC in InsertEdgePending submits the buffer
transition_pending_esc_submits(self, key) ==
    CASE self.tag = "Command" ->
            IF key = "i" THEN ModeChange(Insert)
            ELSE unknown_command(self, key)
      [] self.tag = "Insert" ->
            IF key = ESC THEN ModeChange(Command)
            ELSE IF key = "v" THEN Apply(CreateNewVertex, Insert)
            ELSE IF key = "e" THEN ModeChange(InsertEdgePending(<<>>))
            ELSE unknown_command(self, key)
      [] self.tag = "InsertEdgePending" ->
            IF key \in {ESC, ENTER} THEN Apply(CreateNewEdge(self.buf), Insert)
            ELSE ModeChange(InsertEdgePending(Append(self.buf, key)))

\* transition where ESC in InsertEdgePending leaves for Command
transition_pending_esc_to_command(self, key) ==
    CASE self.tag = "Command" ->
            IF key = "i" THEN ModeChange(Insert)
            ELSE unknown_command(self, key)
      [] self.tag = "Insert" ->
            IF key = ESC THEN ModeChange(Command)
            ELSE IF key = "v" THEN Apply(CreateNewVertex, Insert)
            ELSE IF key = "e" THEN ModeChange(InsertEdgePending(<<>>))
            ELSE unknown_command(self, key)
      [] self.tag = "InsertEdgePending" ->
            IF key = ESC THEN ModeChange(Command)
            ELSE IF key = ENTER THEN Apply(CreateNewEdge(self.buf), Insert)
            ELSE ModeChange(InsertEdgePending(Append(self.buf, key)))

\* EditorMode::transition
transition(self, key) ==
    CASE self.tag = "Command" ->
            IF key = "i" THEN ModeChange(Insert)
            ELSE unknown_command(self, key)
      [] self.tag = "Insert" ->
            IF key = ESC THEN ModeChange(Command)
            ELSE IF key = "v" THEN Apply(CreateNewVertex, Insert)
            ELSE IF key = "e" THEN ModeChange(InsertEdgePending(<<>>))
            ELSE unknown_command(self, key)
      [] self.tag = "InsertEdgePending" ->
            IF key = ESC THEN ModeChange(Insert)
            ELSE IF key = ENTER THEN Apply(CreateNewEdge(self.buf), Insert)
            ELSE ModeChange(InsertEdgePending(Append(self.buf, key)))

\* ------------------------------------------------------------ state.rs
\* the panics of a session, by message
NoPanic == "none"
CouldNotFindSource == "Could not find source vertex"
CouldNotFindTarget == "Could not find target vertex"
UnableToParse == "Unable to parse as a list of two vertex ids"
UnknownVertex == "Unknown vertex"

\* Option<NodeId>: None is 0, Some(n) is the index n of the node in the arena
NoNode == 0

\* a default interpretation that asks for a history node
DefaultInterpretation_new_node ==
    [document_changes |-> <<>>, new_history_node |-> TRUE, set_last_edit |-> NoNode]

\* OpInterpretation::default
DefaultInterpretation ==
    [document_changes |-> <<>>, new_history_node |-> FALSE, set_last_edit |-> NoNode]

\* standard_op that asks for no history node
standard_op_without_node(ops) ==
    [document_changes |-> ops, new_history_node |-> FALSE, set_last_edit |-> NoNode]

\* OpInterpretation::standard_op
standard_op(ops) ==
    [document_changes |-> ops, new_history_node |-> TRUE, set_last_edit |-> NoNode]

\* EditorState::new
NewEditorState ==
    [mode |-> Command, document |-> NewGraph, history_tree |-> <<>>,
     last_edit |-> NoNode, next_vertex_id |-> 0, next_edge_id |-> 0,
     panicked |-> NoPanic]

\* Arena::new_node: a node without parent or children, at the end of the arena
new_node(tree, data) == Append(tree, [data |-> data, parent |-> NoNode, children |-> <<>>])

\* append that puts new_id in front of the children of node_id
append_in_front(tree, node_id, new_id) ==
    [tree EXCEPT ![node_id].children = <<new_id>> \o @, ![new_id].parent = node_id]

\* NodeId::append: new_id becomes the last child of node_id
append(tree, node_id, new_id) ==
    [tree EXCEPT ![node_id].children = Append(@, new_id), ![new_id].parent = node_id]

\* Node::last_child
last_child(node) ==
    IF node.children = <<>> THEN NoNode ELSE node.children[Len(node.children)]

\* the CreateNewVertex arm with the counter left where it was
create_new_vertex_keeps_counter(self) ==
    LET v == Vertex(self.next_vertex_id)
    IN  [self |-> self, interp |-> standard_op(<<AddVertex(v)>>), panic |-> NoPanic]

\* EditorState::interpret_modal_operation, the CreateNewVertex arm
create_new_vertex(self) ==
    LET v == Vertex(self.next_vertex_id)
    IN  [self |-> [self EXCEPT !.next_vertex_id = @ + 1],
         interp |-> standard_op(<<AddVertex(v)>>), panic |-> NoPanic]

\* EditorState::interpret_modal_operation: the session after it (the id
\* counters move), the OpInterpretation returned, or the panic raised
interpret_modal_operation(self, op) ==
    CASE op.tag = "CreateNewVertex" -> create_new_vertex(self)
      [] op.tag = "CreateNewEdge" ->
            LET split == rsplit_once(op.arg)
                source == resolve_vertex(self.document, split.val[1])
                target == resolve_vertex(self.document, split.val[2])
            IN  IF ~split.some
                THEN [self |-> self, interp |-> DefaultInterpretation, panic |-> UnableToParse]
                ELSE IF ~source.some
                THEN [self |-> self, interp |-> DefaultInterpretation, panic |-> CouldNotFindSource]
                ELSE IF ~target.some
                THEN [self |-> self, interp |-> DefaultInterpretation, panic |-> CouldNotFindTarget]
                ELSE LET e == Edge(self.next_edge_id, source.val, target.val)
                     IN  [self |-> [self EXCEPT !.next_edge_id = @ + 1],
                          interp |-> standard_op(<<AddEdge(e)>>), panic |-> NoPanic]
      [] op.tag = "Undo" ->
            IF self.last_edit = NoNode
            THEN [self |-> self, interp |-> DefaultInterpretation, panic |-> NoPanic]
            ELSE LET node == self.history_tree[self.last_edit]
                     inverted == [i \in 1..Len(node.data) |-> invert(node.data[i])]
                 IN  [self |-> self,
                      interp |-> [document_changes |-> inverted,
                                  new_history_node |-> FALSE,
                                  set_last_edit |-> node.parent],
                      panic |-> NoPanic]
      [] op.tag = "Redo" ->
            IF self.last_edit = NoNode
            THEN [self |-> self, interp |-> DefaultInterpretation, panic |-> NoPanic]
            ELSE LET next_state_id == last_child(self.history_tree[self.last_edit])
                 IN  IF next_state_id = NoNode
                     THEN [self |-> self, interp |-> DefaultInterpretation, panic |-> NoPanic]
                     ELSE [self |-> self,
                           interp |-> [document_changes |-> self.history_tree[next_state_id].data,
                                       new_history_node |-> FALSE,
                                       set_last_edit |-> next_state_id],
                           panic |-> NoPanic]

\* the history bookkeeping with a node created for every applied intent
record_history_always_new_node(self, interp, d) ==
    LET t1 == new_node(self.history_tree, d)
        new_node_id == Len(t1)
        t2 == IF self.last_edit # NoNode
              THEN append(t1, self.last_edit, new_node_id) ELSE t1
        s1 == [self EXCEPT !.history_tree = t2, !.last_edit = new_node_id]
    IN  IF interp.set_last_edit # NoNode
        THEN [s1 EXCEPT !.last_edit = interp.set_last_edit]
        ELSE s1

\* EditorState::evaluate, the history bookkeeping of the Apply arm (93-103)
record_history(self, interp, d) ==
    LET s1 == IF interp.new_history_node
              THEN LET t1 == new_node(self.history_tree, d)
                       new_node_id == Len(t1)
                       t2 == IF self.last_edit # NoNode
                             THEN append(t1, self.last_edit, new_node_id) ELSE t1
                   IN  [self EXCEPT !.history_tree = t2, !.last_edit = new_node_id]
              ELSE self
    IN  IF interp.set_last_edit # NoNode
        THEN [s1 EXCEPT !.last_edit = interp.set_last_edit]
        ELSE s1

\* EditorState::evaluate, the Apply(op, next_mode) arm (86-104)
apply_arm(self, op, next_mode, ord) ==
    LET s0 == [self EXCEPT !.mode = next_mode]
        i == interpret_modal_operation(s0, op)
    IN  IF i.panic # NoPanic THEN [s0 EXCEPT !.panicked = i.panic]
        ELSE LET r == apply_all(i.self.document, i.interp.document_changes, ord)
                 s1 == [i.self EXCEPT !.document = r.g]
             IN  IF r.panic THEN [s1 EXCEPT !.panicked = UnknownVertex]
                 ELSE record_history(s1, i.interp, r.diff)

\* EditorState::evaluate on the outcome of the mode machine
evaluate_result(self, tr, ord) ==
    CASE tr.kind = "ModeChange" -> [self EXCEPT !.mode = tr.mode]
      [] tr.kind = "Apply" -> apply_arm(self, tr.op, tr.mode, ord)
      [] tr.kind = "Error" -> [self EXCEPT !.mode = tr.mode]

\* EditorState::evaluate
evaluate(self, key, ord) == evaluate_result(self, transition(self.mode, key), ord)

\* ----------------------------------------------------- editor session
\* the keys typed: mode keys, the two control codes, and the characters of
\* an edge specification (a letter stands for any character that is neither
\* a digit, a comma nor a space)
Keys == {"i", "v", "e", "u", "U", ESC, ENTER, "0", "1", ",", " "}

NoKey == "none"

\* the characters typed into an edge specification ("v" for any other character)
EdgeChars == {"0", "1", ",", " ", "v"}

\* the session as one EditorState value
Self ==
    [mode |-> mode, document |-> document, history_tree |-> history_tree,
     last_edit |-> last_edit, next_vertex_id |-> next_vertex_id,
     next_edge_id |-> next_edge_id, panicked |-> panicked]

\* the edge ids a HashSet of this session's edges may have to order
SessionEdgeIds ==
    (DOMAIN document.edges) \cup
    UNION {EdgeIdsOf(NewGraph, history_tree[n].data) : n \in 1..Len(history_tree)}

SetSelf(n) ==
    /\ mode' = n.mode
    /\ document' = n.document
    /\ history_tree' = n.history_tree
    /\ last_edit' = n.last_edit
    /\ next_vertex_id' = n.next_vertex_id
    /\ next_edge_id' = n.next_edge_id
    /\ panicked' = n.panicked

\* the edge specification buf does not name two vertices of gr
Malformed(buf, gr) ==
    \/ \A i \in 1..Len(buf) : buf[i] # ","
    \/ LET k == CHOOSE i \in 1..Len(buf) : buf[i] = "," /\ \A j \in (i + 1)..Len(buf) : buf[j] # ","
           left == parse_i64(trim(SubSeq(buf, 1, k - 1)))
           right == parse_i64(trim(SubSeq(buf, k + 1, Len(buf))))
       IN  \/ ~left.some
           \/ ~right.some
           \/ left.val \notin DOMAIN gr.vertices
           \/ right.val \notin DOMAIN gr.vertices

\* the data of the session that an edit may change
Frame == <<document, history_tree, last_edit, next_vertex_id, next_edge_id>>

\* no edge specification is being typed or was just cancelled
NoEdgeInput == [phase |-> "none", typed |-> 0, frame |-> <<>>]

\* what evaluate(key) makes of edge_input
FollowEdgeInput(key) ==
    IF mode = Insert /\ key = "e"
    THEN [phase |-> "typing", typed |-> 0, frame |-> Frame]
    ELSE IF mode.tag = "InsertEdgePending" /\ key = ESC
    THEN [edge_input EXCEPT !.phase = "cancelled"]
    ELSE IF mode.tag = "InsertEdgePending" /\ key # ENTER
    THEN [edge_input EXCEPT !.typed = @ + 1]
    ELSE NoEdgeInput

\* the intent op, evaluated now, is a CreateNewVertex or a successful CreateNewEdge
CountsAsEdit(op) ==
    \/ op.tag = "CreateNewVertex"
    \/ op.tag = "CreateNewEdge" /\ ~Malformed(op.arg, document)

\* no standard edit is being followed
NoRoundTrip == [phase |-> "none", before |-> NewGraph, after |-> NewGraph]

\* what an evaluated intent makes of round_trip: a standard edit starts one,
\* Undo right after the edit and Redo right after that Undo continue it
FollowRoundTrip(op, before, after) ==
    IF op.tag \in {"CreateNewVertex", "CreateNewEdge"} /\ after.panicked = NoPanic
    THEN [phase |-> "edited", before |-> before.document, after |-> after.document]
    ELSE IF op.tag = "Undo" /\ round_trip.phase = "edited"
    THEN [round_trip EXCEPT !.phase = "undone"]
    ELSE IF op.tag = "Redo" /\ round_trip.phase = "undone"
    THEN [round_trip EXCEPT !.phase = "redone"]
    ELSE NoRoundTrip

EditorInit ==
    /\ mode = NewEditorState.mode
    /\ document = NewEditorState.document
    /\ history_tree = NewEditorState.history_tree
    /\ last_edit = NewEditorState.last_edit
    /\ next_vertex_id = NewEditorState.next_vertex_id
    /\ next_edge_id = NewEditorState.next_edge_id
    /\ panicked = NewEditorState.panicked
    /\ input = NoKey
    /\ transition_result = ModeChange(Command)
    /\ round_trip = NoRoundTrip
    /\ edits_evaluated = 0
    /\ edge_input = NoEdgeInput

GraphInit(start) ==
    /\ g = NewGraph
    /\ gop = NoOp
    /\ diff = <<>>
    /\ failed = FALSE
    /\ history = <<>>
    /\ pc = start
    /\ idx = 0
    /\ batch = <<>>

\* the bounds of a run: the buffer and the arena stay small, and an edge
\* specification is typed only while the arena has room for its node
WithinBounds(key, tr) ==
    /\ mode.tag = "InsertEdgePending" => key \in EdgeChars \cup {ESC, ENTER}
    /\ tr.mode.tag = "InsertEdgePending" =>
          Len(tr.mode.buf) <= MaxBuf /\ Len(history_tree) < MaxNodes
    /\ tr.kind = "Apply" /\ tr.op.tag \in {"CreateNewVertex", "CreateNewEdge"}
         => Len(history_tree) < MaxNodes

\* the iteration orders that matter to evaluate on outcome tr: those of the
\* session's edges when the operations to apply hold a RemoveVertex, which
\* alone iterates over a HashSet; no order otherwise
HashOrders(tr) ==
    LET ops == IF tr.kind = "Apply"
               THEN interpret_modal_operation(Self, tr.op).interp.document_changes
               ELSE <<>>
    IN  IF \E i \in 1..Len(ops) : ops[i].op = "RemoveVertex"
        THEN Orders(SessionEdgeIds) ELSE {<<>>}

\* evaluate(Input::Key(key))
Evaluate(key) ==
    /\ panicked = NoPanic
    /\ WithinBounds(key, transition(mode, key))
    /\ \E ord \in HashOrders(transition(mode, key)) :
         LET tr == transition(mode, key)
             after == evaluate(Self, key, ord)
         IN  /\ SetSelf(after)
             /\ round_trip' = IF tr.kind = "Apply"
                              THEN FollowRoundTrip(tr.op, Self, after)
                              ELSE round_trip
    /\ input' = key
    /\ transition_result' = transition(mode, key)
    /\ edits_evaluated' = IF transition(mode, key).kind = "Apply" /\ CountsAsEdit(transition(mode, key).op)
                          THEN edits_evaluated + 1 ELSE edits_evaluated
    /\ edge_input' = FollowEdgeInput(key)
    /\ UNCHANGED graphVars

\* evaluate on an input for which the mode machine hands over Apply(op, Command)
\* with op Undo or Redo, which is how state.rs:253 and state.rs:258 expect the
\* keys u and U to arrive in Command mode
EvaluateIntent(op) ==
    /\ panicked = NoPanic
    /\ mode = Command
    /\ \E ord \in HashOrders(Apply(op, Command)) :
         LET after == evaluate_result(Self, Apply(op, Command), ord)
         IN  /\ SetSelf(after)
             /\ round_trip' = FollowRoundTrip(op, Self, after)
    /\ input' = NoKey
    /\ transition_result' = Apply(op, Command)
    /\ edits_evaluated' = edits_evaluated
    /\ edge_input' = NoEdgeInput
    /\ UNCHANGED graphVars

Init == EditorInit /\ GraphInit("idle")

Next ==
    \/ \E key \in Keys : Evaluate(key)
    \/ \E op \in {Undo, Redo} : EvaluateIntent(op)

Spec == Init /\ [][Next]_vars

\* ---------------------------------------------------- graph-level runs
\* g.apply(op) on a graph built from Graph::new() by earlier calls
GraphApply(op) ==
    /\ pc = "free"
    /\ ~failed
    /\ \E ord \in (IF op.op = "RemoveVertex" THEN Orders(DOMAIN g.edges) ELSE {<<>>}) :
         LET r == apply(g, op, ord)
         IN  /\ g' = r.g
             /\ diff' = r.diff
             /\ failed' = r.panic
    /\ gop' = op
    /\ UNCHANGED <<history, pc, idx, batch>>
    /\ UNCHANGED editorVars

GraphInitFree == EditorInit /\ GraphInit("free")

GraphNext == \E op \in GraphOps : GraphApply(op)

GraphSpec == GraphInitFree /\ [][GraphNext]_vars

\* tests::undo_operations, for any Add operations: record the effective diffs
RecordAdd(op) ==
    /\ pc = "add"
    /\ op.op \in {"AddVertex", "AddEdge"}
    /\ op.op = "AddEdge" => {op.e.source, op.e.target} \subseteq DOMAIN g.vertices
    /\ Len(history) < MaxOps
    /\ \E ord \in Orders(DOMAIN g.edges) :
         LET r == apply(g, op, ord)
         IN  /\ g' = r.g
             /\ diff' = r.diff
             /\ failed' = r.panic
             /\ history' = history \o r.diff
    /\ gop' = op
    /\ UNCHANGED <<pc, idx, batch>>
    /\ UNCHANGED editorVars

\* the loop over history starts
StartUndo ==
    /\ pc = "add"
    /\ pc' = "undo"
    /\ idx' = 1
    /\ UNCHANGED <<g, gop, diff, failed, history, batch>>
    /\ UNCHANGED editorVars

\* one iteration: g.apply(op.invert())
UndoStep ==
    /\ pc = "undo"
    /\ ~failed
    /\ idx <= Len(history)
    /\ \E ord \in Orders(DOMAIN g.edges) :
         LET r == apply(g, invert(history[idx]), ord)
         IN  /\ g' = r.g
             /\ diff' = r.diff
             /\ failed' = r.panic
    /\ gop' = invert(history[idx])
    /\ idx' = idx + 1
    /\ UNCHANGED <<history, pc, batch>>
    /\ UNCHANGED editorVars

\* the loop is over
FinishUndo ==
    /\ pc = "undo"
    /\ ~failed
    /\ idx > Len(history)
    /\ pc' = "done"
    /\ UNCHANGED <<g, gop, diff, failed, history, idx, batch>>
    /\ UNCHANGED editorVars

UndoInit == EditorInit /\ GraphInit("add")

UndoNext ==
    \/ \E op \in GraphOps : RecordAdd(op)
    \/ StartUndo
    \/ UndoStep
    \/ FinishUndo

UndoSpec == UndoInit /\ [][UndoNext]_vars

\* the operations given to apply_all in one call: vertex operations and the
\* AddEdge operations of edge 0
BatchOps ==
    {AddVertex(v) : v \in AllVertices} \cup {RemoveVertex(v) : v \in AllVertices}
    \cup {AddEdge(e) : e \in {x \in AllEdges : x.id = 0}}

Batches == UNION {[1..n -> BatchOps] : n \in 1..MaxBatch}

\* g.apply_all(operations) on a graph built from Graph::new() by earlier calls
GraphApplyAll(operations) ==
    /\ pc = "batch"
    /\ ~failed
    /\ \E ord \in Orders(EdgeIdsOf(g, operations)) :
         LET r == apply_all(g, operations, ord)
         IN  /\ g' = r.g
             /\ diff' = r.diff
             /\ failed' = r.panic
    /\ batch' = operations
    /\ UNCHANGED <<gop, history, pc, idx>>
    /\ UNCHANGED editorVars

BatchInit == EditorInit /\ GraphInit("batch")

BatchNext == \E operations \in Batches : GraphApplyAll(operations)

BatchSpec == BatchInit /\ [][BatchNext]_vars

\* ================================================================ claims

\* the step is evaluate(Input::Key(key)) taken in a running session
KeyStep(key) == panicked = NoPanic /\ input' = key

\* the step is the evaluation of the intent op (Undo or Redo)
IntentStep(op) ==
    /\ panicked = NoPanic
    /\ input' = NoKey
    /\ transition_result' = Apply(op, Command)

\* invariant I1 of a graph
I1(gr) ==
    \A id \in DOMAIN gr.edges :
        /\ gr.edges[id].source \in DOMAIN gr.vertices
        /\ gr.edges[id].target \in DOMAIN gr.vertices

\* C2: after every Graph.apply call that returns, whatever the operations
\* and their order, every edge of the graph has its source id and its target
\* id among the keys of the vertex mapping; the same holds of the document
\* of a session.  (GraphSpec)
C2_NoDanglingEdge == I1(g) /\ I1(document)

\* a RemoveVertex has just cascaded over two edges
C2_Witness ==
    /\ gop.op = "RemoveVertex"
    /\ Len(diff) = 3
    /\ ~failed

\* the edges of gr incident to vertex id vid
IncidentEdgeIds(gr, vid) ==
    {id \in DOMAIN gr.edges : gr.edges[id].source = vid \/ gr.edges[id].target = vid}

\* C8: AddVertex(v) with v.id already a vertex key, and AddEdge(e) with e.id
\* already an edge key (whatever source and target e carries, both being
\* vertices), return an empty diff and leave both mappings as they were.
\* (GraphSpec)
C8_ReAddChangesNothing ==
    [][(\/ gop'.op = "AddVertex" /\ gop'.v.id \in DOMAIN g.vertices
        \/ /\ gop'.op = "AddEdge"
           /\ gop'.e.id \in DOMAIN g.edges
           /\ gop'.e.source \in DOMAIN g.vertices
           /\ gop'.e.target \in DOMAIN g.vertices)
       => (diff' = <<>> /\ g' = g)]_vars

\* C9: RemoveVertex(v) on a graph holding v.id removes v and exactly the
\* edges whose source or target is v.id, keeps every other vertex and edge,
\* and returns RemoveVertex(v) followed by one RemoveEdge per removed edge
\* and nothing else; with v.id absent the graph stays and the diff is empty.
\* (GraphSpec)
C9_RemoveVertexCascade ==
    [][gop'.op = "RemoveVertex" =>
        LET vid == gop'.v.id
            gone == IncidentEdgeIds(g, vid)
        IN  IF vid \in DOMAIN g.vertices
            THEN /\ DOMAIN g'.vertices = (DOMAIN g.vertices) \ {vid}
                 /\ \A k \in DOMAIN g'.vertices : g'.vertices[k] = g.vertices[k]
                 /\ DOMAIN g'.edges = (DOMAIN g.edges) \ gone
                 /\ \A k \in DOMAIN g'.edges : g'.edges[k] = g.edges[k]
                 /\ Len(diff') = 1 + Cardinality(gone)
                 /\ diff'[1] = RemoveVertex(gop'.v)
                 /\ {diff'[i] : i \in 2..Len(diff')} = {RemoveEdge(g.edges[id]) : id \in gone}
            ELSE g' = g /\ diff' = <<>>]_vars

\* a RemoveVertex has removed one of two edges and kept the other
C9_Witness ==
    /\ gop.op = "RemoveVertex"
    /\ Len(diff) = 2
    /\ Cardinality(DOMAIN g.edges) = 1

\* C10: after any AddVertex/AddEdge operations on the empty graph (each
\* AddEdge between existing vertices), applying the inverse of every recorded
\* effective operation in recording order never fails and ends with the
\* empty graph.  (UndoSpec)
C10_InverseInOrderEmpties ==
    /\ ~failed
    /\ pc = "done" => (DOMAIN g.vertices = {} /\ DOMAIN g.edges = {})

\* the run is over and had recorded two vertices and an edge between them
C10_Witness ==
    /\ pc = "done"
    /\ Len(history) = 3
    /\ \E i \in 1..Len(history) :
          history[i].op = "AddEdge" /\ history[i].e.source # history[i].e.target

\* C1: in every reachable state and for every standard edit (CreateNewVertex
\* or a CreateNewEdge that succeeds) evaluated there, the first edit of the
\* session included: an Undo intent evaluated right after the edit makes the
\* document equal to the document before the edit, and a Redo intent
\* evaluated right after that Undo makes it equal to the document after the
\* edit.
C1_UndoRedoRoundTrip ==
    /\ round_trip.phase = "undone" => document = round_trip.before
    /\ round_trip.phase = "redone" => document = round_trip.after
    /\ round_trip.phase # "none" => panicked = NoPanic

\* C3: ENTER in InsertEdgePending(buf) with a buf that has no comma, or a
\* side that is no integer, or a side that is no vertex of the document, is
\* a recoverable error: the session keeps running, the mode becomes Insert,
\* and the document, the history tree, the cursor and both id counters stay.
C3_MalformedEdgeSpecRecovers ==
    [][(/\ KeyStep(ENTER)
        /\ mode.tag = "InsertEdgePending"
        /\ Malformed(mode.buf, document))
       => (/\ panicked' = NoPanic
           /\ mode' = Insert
           /\ UNCHANGED <<document, history_tree, last_edit, next_vertex_id, next_edge_id>>)]_vars

\* C4: whatever is typed, Undo and Redo included, no AddEdge reaches the
\* document with a source or target that is not a vertex: add_edge never
\* panics.
C4_AddEdgeNeverPanics == panicked # UnknownVertex

\* C5: Undo with the cursor at node N applies the inverses of N's diff and
\* sets the cursor to N's parent, to none when N is a root; it adds no node
\* to the history tree.
C5_UndoMovesToParent ==
    [][(IntentStep(Undo) /\ last_edit # NoNode) =>
        LET node == history_tree[last_edit]
        IN  /\ \E ord \in Orders(SessionEdgeIds) :
                 document' = apply_all(document, [i \in 1..Len(node.data) |-> invert(node.data[i])], ord).g
            /\ last_edit' = node.parent
            /\ history_tree' = history_tree]_vars

\* C6: in Command mode the mode machine maps u to Apply(Undo, Command) and U
\* to Apply(Redo, Command), and the session stays in Command mode.
C6_CommandUndoRedoKeys ==
    [][(mode = Command /\ panicked = NoPanic) =>
        /\ input' = "u" => (transition_result' = Apply(Undo, Command) /\ mode' = Command)
        /\ input' = "U" => (transition_result' = Apply(Redo, Command) /\ mode' = Command)]_vars

\* C7: outside the rows Command+u and Command+U, transition returns the
\* outcome of the table: Command+i -> ModeChange(Insert); Insert+ESC ->
\* ModeChange(Command); Insert+v -> Apply(CreateNewVertex, Insert); Insert+e
\* -> ModeChange(InsertEdgePending("")); InsertEdgePending(buf)+ESC ->
\* ModeChange(Insert); InsertEdgePending(buf)+ENTER -> Apply(CreateNewEdge(buf),
\* Insert); InsertEdgePending(buf)+c -> ModeChange(InsertEdgePending(buf+c));
\* any other key in Command or Insert -> Error with the mode unchanged.
C7_TransitionTable ==
    [][\A key \in Keys : (KeyStep(key) /\ ~(mode = Command /\ key \in {"u", "U"})) =>
        transition_result' =
            IF mode = Command
            THEN (IF key = "i"
                  THEN [kind |-> "ModeChange", op |-> NoIntent, mode |-> Insert]
                  ELSE [kind |-> "Error", op |-> NoIntent, mode |-> Command])
            ELSE IF mode = Insert
            THEN (IF key = ESC
                  THEN [kind |-> "ModeChange", op |-> NoIntent, mode |-> Command]
                  ELSE IF key = "v"
                  THEN [kind |-> "Apply", op |-> CreateNewVertex, mode |-> Insert]
                  ELSE IF key = "e"
                  THEN [kind |-> "ModeChange", op |-> NoIntent,
                        mode |-> [tag |-> "InsertEdgePending", buf |-> <<>>]]
                  ELSE [kind |-> "Error", op |-> NoIntent, mode |-> Insert])
            ELSE (IF key = ESC
                  THEN [kind |-> "ModeChange", op |-> NoIntent, mode |-> Insert]
                  ELSE IF key = ENTER
                  THEN [kind |-> "Apply",
                        op |-> [tag |-> "CreateNewEdge", arg |-> mode.buf],
                        mode |-> Insert]
                  ELSE [kind |-> "ModeChange", op |-> NoIntent,
                        mode |-> [tag |-> "InsertEdgePending", buf |-> mode.buf \o <<key>>]])]_vars

\* ESC has just discarded a typed edge specification
C7_Witness ==
    /\ input = ESC
    /\ mode = Insert
    /\ transition_result = [kind |-> "ModeChange", op |-> NoIntent, mode |-> Insert]
    /\ Cardinality(DOMAIN document.vertices) = 2


\* the vertex ids and the edge ids that the diff of history node n carries
NodeVertexIds(n) ==
    {history_tree[n].data[i].v.id :
        i \in {j \in 1..Len(history_tree[n].data) :
                  history_tree[n].data[j].op \in {"AddVertex", "RemoveVertex"}}}

NodeEdgeIds(n) ==
    {history_tree[n].data[i].e.id :
        i \in {j \in 1..Len(history_tree[n].data) :
                  history_tree[n].data[j].op \in {"AddEdge", "RemoveEdge"}}}

\* C11: ids are never reused: whatever is typed (Undo, Redo, errors and
\* cancelled edge input included) neither id counter ever decreases, every id
\* in the diff of a history node is strictly below the counter of its kind,
\* and no two history nodes carry a vertex, or an edge, with the same id.
C11_IdsNeverReused ==
    /\ [](\A n \in 1..Len(history_tree) :
            /\ \A id \in NodeVertexIds(n) : id < next_vertex_id
            /\ \A id \in NodeEdgeIds(n) : id < next_edge_id
            /\ \A m \in 1..Len(history_tree) :
                  m # n => /\ NodeVertexIds(n) \cap NodeVertexIds(m) = {}
                           /\ NodeEdgeIds(n) \cap NodeEdgeIds(m) = {})
    /\ [][next_vertex_id' >= next_vertex_id /\ next_edge_id' >= next_edge_id]_vars

\* a vertex was created on a second branch, after an Undo, next to an edge
C11_Witness ==
    /\ \E n \in 1..Len(history_tree) : Len(history_tree[n].children) = 2
    /\ next_vertex_id = 3
    /\ next_edge_id = 1


\* node n of tree has a sibling appended after it
HasLaterSibling(tree, n) ==
    /\ tree[n].parent # NoNode
    /\ tree[tree[n].parent].children[Len(tree[tree[n].parent].children)] # n

\* node n of tree and its ancestors
RECURSIVE PathToRoot(_, _)
PathToRoot(tree, n) ==
    IF n = NoNode THEN {} ELSE {n} \cup PathToRoot(tree, tree[n].parent)

\* C12: Redo follows only the last-appended child of the cursor node: once
\* an Undo has led from B back to its parent N and a new standard edit has
\* made C the last child of N, a Redo at N moves the cursor to that last
\* child and applies its diff, never B's; B and its subtree stay in the tree,
\* and the cursor never again stands on B or below it.
C12_RedoFollowsLastChild ==
    [][/\ (/\ IntentStep(Redo)
           /\ last_edit # NoNode
           /\ Len(history_tree[last_edit].children) >= 2)
          => LET children == history_tree[last_edit].children
                 c == children[Len(children)]
             IN  /\ panicked' = NoPanic
                 /\ last_edit' = c
                 /\ \E ord \in Orders(SessionEdgeIds) :
                       document' = apply_all(document, history_tree[c].data, ord).g
       /\ Len(history_tree') >= Len(history_tree)
       /\ \A n \in 1..Len(history_tree) : history_tree'[n].data = history_tree[n].data
       /\ \A n \in PathToRoot(history_tree', last_edit') : ~HasLaterSibling(history_tree', n)]_vars


\* the step evaluates a CreateNewVertex or a successful CreateNewEdge
EditStep ==
    /\ panicked = NoPanic
    /\ input' # NoKey
    /\ transition_result'.kind = "Apply"
    /\ CountsAsEdit(transition_result'.op)

\* C13: the history tree is append-only: a standard edit with the cursor at
\* N creates exactly one node, as the last child of N (a root without parent
\* when the cursor is none), and moves the cursor to it; across every
\* keystroke each existing node keeps its diff, its parent and the order of
\* the children it had, and the number of nodes never decreases.
C13_AppendOnly ==
    [][/\ Len(history_tree') >= Len(history_tree)
       /\ \A n \in 1..Len(history_tree) :
             /\ history_tree'[n].data = history_tree[n].data
             /\ history_tree'[n].parent = history_tree[n].parent
             /\ Len(history_tree'[n].children) >= Len(history_tree[n].children)
             /\ \A i \in 1..Len(history_tree[n].children) :
                   history_tree'[n].children[i] = history_tree[n].children[i]
       /\ EditStep =>
             LET new == Len(history_tree) + 1
             IN  /\ Len(history_tree') = new
                 /\ history_tree'[new].parent = last_edit
                 /\ history_tree'[new].children = <<>>
                 /\ last_edit' = new
                 /\ \A n \in 1..Len(history_tree) :
                       history_tree'[n].children =
                           IF n = last_edit THEN history_tree[n].children \o <<new>>
                           ELSE history_tree[n].children]_vars

\* an edit has just added a second child to a node and the cursor is on it
C13_Witness ==
    /\ input \in {"v", ENTER}
    /\ transition_result.kind = "Apply"
    /\ last_edit = Len(history_tree)
    /\ last_edit # NoNode
    /\ history_tree[last_edit].parent # NoNode
    /\ Len(history_tree[history_tree[last_edit].parent].children) = 2


\* C14: history nodes are created only by standard edits: a keystroke that
\* results in a ModeChange, an Error, an Undo or a Redo leaves the history
\* nodes unchanged, and the number of history nodes always equals the number
\* of CreateNewVertex and successful CreateNewEdge intents evaluated so far.
C14_NodesOnlyFromEdits ==
    /\ [](Len(history_tree) = edits_evaluated)
    /\ [][~EditStep => history_tree' = history_tree]_vars

\* an Undo and a Redo have been evaluated after two edits, one of them an edge
C14_Witness ==
    /\ transition_result = Apply(Redo, Command)
    /\ input = NoKey
    /\ edits_evaluated >= 3
    /\ \E n \in 1..Len(history_tree) : NodeEdgeIds(n) # {}
    /\ last_edit # Len(history_tree)


\* key has no meaning in mode m (Command or Insert)
Meaningless(m, key) ==
    \/ m = Command /\ key \notin {"i", "u", "U"}
    \/ m = Insert /\ key \notin {ESC, "v", "e"}

\* C15: a key with no meaning in the current mode (Command or Insert) is a
\* non-fatal error: after it is evaluated the mode is the same as before and
\* the document, the history tree, the cursor and both id counters are
\* unchanged.
C15_UnknownKeyChangesNothing ==
    [][\A key \in Keys :
          KeyStep(key) /\ Meaningless(mode, key)
             => /\ transition_result'.kind = "Error"
                /\ panicked' = NoPanic
                /\ mode' = mode
                /\ Frame' = Frame]_vars

\* a meaningless key has just been evaluated in Insert mode on a document
\* that has an edge
C15_Witness ==
    /\ transition_result.kind = "Error"
    /\ input \in {"0", ",", ENTER}
    /\ mode = Insert
    /\ DOMAIN document.edges # {}
    /\ panicked = NoPanic


\* C16: cancelling edge input has zero side effects: after `e`, any
\* characters c1..cn other than ESC and ENTER, and ESC, typed in Insert mode,
\* the session is in Insert mode with the document, the history tree, the
\* cursor and both id counters equal to their values before the `e`
\* keystroke; while typing, the buffer holds exactly the characters typed
\* since `e`, so a discarded buffer has no influence on a later edge
\* specification.
C16_CancelHasNoSideEffects ==
    /\ [](/\ edge_input.phase = "cancelled"
             => /\ mode = Insert
                /\ Frame = edge_input.frame
                /\ panicked = NoPanic
          /\ edge_input.phase = "typing"
             => /\ mode.tag = "InsertEdgePending"
                /\ Len(mode.buf) = edge_input.typed
                /\ Frame = edge_input.frame)
    /\ [][KeyStep("e") /\ mode = Insert => mode' = InsertEdgePending(<<>>)]_vars

\* an edge specification of two characters or more that names vertices of
\* the document has just been cancelled
C16_Witness ==
    /\ edge_input.phase = "cancelled"
    /\ edge_input.typed >= 2
    /\ input = ESC
    /\ DOMAIN document.vertices # {}
    /\ last_edit # NoNode


\* the vertex id that one side of the edge specification buf trims and
\* parses to: side 1 is before the last comma, side 2 after it
SpecSide(buf, side) == parse_i64(trim(rsplit_once(buf).val[side])).val

\* C17: a well-formed edge specification succeeds atomically: when ENTER is
\* pressed in InsertEdgePending(buf) and buf, split at its last comma, gives
\* two sides that trim and parse to ids a and b of vertices of the document,
\* the session adds exactly one edge with id equal to the edge counter, source
\* a and target b, increments the edge counter by one, records one new
\* history node holding AddEdge of that edge, leaves the vertex mapping
\* unchanged and ends in Insert mode.
C17_WellFormedEdgeSucceeds ==
    [][(/\ KeyStep(ENTER)
        /\ mode.tag = "InsertEdgePending"
        /\ ~Malformed(mode.buf, document))
          => LET a == SpecSide(mode.buf, 1)
                 b == SpecSide(mode.buf, 2)
                 e == [id |-> next_edge_id, source |-> a, target |-> b]
                 new == Len(history_tree) + 1
             IN  /\ panicked' = NoPanic
                 /\ mode' = Insert
                 /\ next_edge_id \notin DOMAIN document.edges
                 /\ DOMAIN document'.edges = DOMAIN document.edges \cup {next_edge_id}
                 /\ document'.edges[next_edge_id] = e
                 /\ \A id \in DOMAIN document.edges : document'.edges[id] = document.edges[id]
                 /\ document'.vertices = document.vertices
                 /\ next_edge_id' = next_edge_id + 1
                 /\ next_vertex_id' = next_vertex_id
                 /\ Len(history_tree') = new
                 /\ history_tree'[new].data = <<[op |-> "AddEdge", e |-> e]>>
                 /\ last_edit' = new]_vars

\* Scenario A: after i, v, v, e, 0, ",", 1, ENTER the document has vertices 0
\* and 1 and edge 0 from 0 to 1
C17_Witness ==
    /\ input = ENTER
    /\ transition_result = Apply(CreateNewEdge(<<"0", ",", "1">>), Insert)
    /\ mode = Insert
    /\ panicked = NoPanic
    /\ DOMAIN document.vertices = {0, 1}
    /\ DOMAIN document.edges = {0}
    /\ document.edges[0] = [id |-> 0, source |-> 0, target |-> 1]
    /\ next_edge_id = 1
    /\ Len(history_tree) = 3


\* the graph obtained by applying to the empty graph the diffs of the nodes
\* on the path from the root down to node n, in order
RECURSIVE Materialize(_, _)
Materialize(tree, n) ==
    IF n = NoNode THEN NewGraph
    ELSE apply_all(Materialize(tree, tree[n].parent), tree[n].data,
                   CHOOSE ord \in Orders(SessionEdgeIds) : TRUE).g

\* C18: the document is always the materialization of the cursor position:
\* in every reachable state the document equals the graph obtained by
\* applying, to the empty graph, the diffs of the nodes on the path from the
\* root down to the cursor node in order; when the cursor is none the
\* document is the empty graph.
C18_DocumentIsMaterialization ==
    panicked = NoPanic => document = Materialize(history_tree, last_edit)


\* C19: Graph.apply_all applies a batch all-or-nothing: if an operation of
\* the batch violates a precondition (an AddEdge whose source or target is
\* not a vertex at the point it is applied), the vertex and edge mappings
\* after the call are identical to those before the call.  (BatchSpec)
C19_ApplyAllAllOrNothing ==
    [][\A operations \in Batches :
          (/\ pc = "batch"
           /\ ~failed
           /\ batch' = operations
           /\ failed')
             => /\ g'.vertices = g.vertices
                /\ g'.edges = g.edges]_vars


\* C20: the diff returned by RemoveVertex(v) is deterministic: the cascaded
\* RemoveEdge operations after the leading RemoveVertex(v) are listed in
\* ascending edge id order.  (GraphSpec)
C20_CascadeInAscendingIdOrder ==
    [][(/\ pc = "free"
        /\ ~failed
        /\ gop'.op = "RemoveVertex"
        /\ gop'.v.id \in DOMAIN g.vertices)
          => /\ Len(diff') >= 1
             /\ diff'[1] = gop'
             /\ \A i \in 2..Len(diff') : diff'[i].op = "RemoveEdge"
             /\ \A i \in 2..Len(diff') : \A j \in 2..Len(diff') :
                   i < j => diff'[i].e.id < diff'[j].e.id]_vars


\* C21: Undo and Redo are complete no-ops at the ends of history: an Undo
\* intent with the cursor at none, a Redo intent with the cursor at none, and
\* a Redo intent at a cursor node without children each leave the document,
\* the history tree, the cursor and both id counters unchanged.
C21_NoOpsAtEndsOfHistory ==
    [][(\/ IntentStep(Undo) /\ last_edit = NoNode
        \/ IntentStep(Redo) /\ last_edit = NoNode
        \/ /\ IntentStep(Redo)
           /\ last_edit # NoNode
           /\ history_tree[last_edit].children = <<>>)
          => /\ Frame' = Frame
             /\ panicked' = NoPanic]_vars

\* a Redo has just been evaluated with the cursor on the only history node,
\* which has no children, and the document holds its vertex
C21_Witness ==
    /\ input = NoKey
    /\ transition_result = Apply(Redo, Command)
    /\ Len(history_tree) = 1
    /\ last_edit = 1
    /\ DOMAIN document.vertices = {0}
    /\ panicked = NoPanic


\* C22: every diff stored in a history node consists of exactly one
\* operation, and that operation is an AddVertex or an AddEdge; no keystroke
\* sequence records an empty diff, a Remove operation or a multi-operation
\* diff in the history tree.
C22_NodesHoldOneAddOperation ==
    \A n \in 1..Len(history_tree) :
        /\ Len(history_tree[n].data) = 1
        /\ history_tree[n].data[1].op \in {"AddVertex", "AddEdge"}

\* the history holds vertex nodes and an edge node, and an Undo that removed
\* an element has been evaluated
C22_Witness ==
    /\ \E n \in 1..Len(history_tree) : NodeVertexIds(n) # {}
    /\ \E n \in 1..Len(history_tree) : NodeEdgeIds(n) # {}
    /\ transition_result = Apply(Undo, Command)
    /\ input = NoKey
    /\ DOMAIN document.edges = {}
    /\ panicked = NoPanic


\* the number of vertices and edges of a graph
Elements(gr) == Cardinality(DOMAIN gr.vertices) + Cardinality(DOMAIN gr.edges)

\* C23: the cascading delete never fires inside a session: whenever an Undo
\* intent applies RemoveVertex(v), the inverse of a recorded AddVertex(v), no
\* edge of the document has v.id as source or target, and an Undo never
\* removes more elements than the single element its node added.
C23_UndoNeverCascades ==
    [][IntentStep(Undo) /\ last_edit # NoNode
          => /\ \A i \in 1..Len(history_tree[last_edit].data) :
                   history_tree[last_edit].data[i].op = "AddVertex"
                      => IncidentEdgeIds(document, history_tree[last_edit].data[i].v.id) = {}
             /\ Elements(document') >= Elements(document) - 1
             /\ DOMAIN document.edges \ DOMAIN document'.edges
                   \subseteq NodeEdgeIds(last_edit)]_vars

\* an Undo has just removed the vertex of node 3 from a document that holds
\* an edge, and moved the cursor to node 2
C23_Witness ==
    /\ input = NoKey
    /\ transition_result = Apply(Undo, Command)
    /\ Len(history_tree) = 3
    /\ last_edit = 2
    /\ NodeVertexIds(3) # {}
    /\ DOMAIN document.edges # {}
    /\ NodeVertexIds(3) \cap DOMAIN document.vertices = {}


\* the nodes from node n up to its root
RECURSIVE Ancestors(_, _)
Ancestors(tree, n) ==
    IF n = NoNode THEN {} ELSE {n} \cup Ancestors(tree, tree[n].parent)

\* C24: the document never contains anything the history path does not
\* explain: in every reachable state, every vertex and every edge of the
\* document is the payload of the Add operation of a history node that is
\* the cursor node or one of its ancestors, and the document is empty
\* whenever the cursor is none.
C24_DocumentExplainedByPath ==
    LET path == Ancestors(history_tree, last_edit)
    IN  /\ \A vid \in DOMAIN document.vertices :
              \E n \in path : \E i \in 1..Len(history_tree[n].data) :
                 history_tree[n].data[i] = AddVertex(document.vertices[vid])
        /\ \A eid \in DOMAIN document.edges :
              \E n \in path : \E i \in 1..Len(history_tree[n].data) :
                 history_tree[n].data[i] = AddEdge(document.edges[eid])
        /\ last_edit = NoNode => document = NewGraph

\* after an Undo at the root and a Redo into its newest branch, the document
\* holds part of what the path to the cursor added, and the other branch is
\* not in it
C24_Witness ==
    /\ input = NoKey
    /\ transition_result = Apply(Redo, Command)
    /\ panicked = NoPanic
    /\ Len(history_tree) = 3
    /\ history_tree[1].children = <<2, 3>>
    /\ last_edit = 3
    /\ DOMAIN document.vertices = NodeVertexIds(3)
    /\ NodeVertexIds(3) # {}

====
